---- MODULE Spec2Model ----
(***************************************************************************)
(* Model of package errors (agext/errors): the errorMessage record, its    *)
(* factory New, its fluent setters, the stack-trace splicing of addInfo,   *)
(* the rendering Error() and the severity-dispatched Log.                  *)
(*                                                                         *)
(* Go strings are sequences of one-character strings, so that the          *)
(* byte-wise scan of addInfo and the formatting of Error() are computed    *)
(* the way the code computes them.                                         *)
(***************************************************************************)
EXTENDS Integers, Sequences, FiniteSets, TLC

VARIABLES
    em,        \* the errorMessage under observation (NoRecord before New)
    shared,    \* a []string owned by the caller, passed as Desc.Info or as s...
    sink,      \* the calls the Logger received, in order
    panicked,  \* a run-time panic propagated out of the package
    last       \* history: the last call made, its arguments and its result

vars == <<em, shared, sink, panicked, last>>

-----------------------------------------------------------------------------
(* Bounds of the model *)

MaxArgs == 2        \* entries in one info list handed to New / AddInfo
MaxInfo == 3        \* entries a record's info may hold (API specification)
MaxInfoAlias == 4   \* the same, in the aliasing specification
MaxLog == 3         \* calls the sink records
MaxLines == 7       \* complete lines after the header in a captured trace
MaxCodeExp == 5     \* codes range over 16^k and 16^k - 1 for k up to this
MaxStackInfo == 1   \* entries a record's info may hold (stack specification)

-----------------------------------------------------------------------------
(* Constants of the package *)

WARNING == 2
ERROR == 3
PANIC == 4
FATAL == 5
minLevel == WARNING
maxLevel == FATAL
ERR_NEW_ARG == 0

NL == "\n"
DEBUG_STACK == <<"d", "e", "b", "u", "g", ".", "s", "t", "a", "c", "k">>
UnsupportedPrefix ==
    <<"u", "n", "s", "u", "p", "p", "o", "r", "t", "e", "d", " ",
      "e", "r", "r", "o", "r", " ",
      "d", "e", "s", "c", "r", "i", "p", "t", "o", "r", " ",
      "t", "y", "p", "e", " ">>
CodePrefix == <<" ", "(", "c", "o", "d", "e", ":", " ", "0", "x">>
CodeSuffix == <<")">>

\* The dynamic types New may be handed.
SupportedTypes == {"string", "*string", "Desc", "*Desc"}
OtherTypes == {"int", "nil"}

\* fmt.Sprintf("%T", desc) for the unsupported inputs of the model.
TypeName(type) ==
    IF type = "nil" THEN <<"<", "n", "i", "l", ">">> ELSE <<"i", "n", "t">>

-----------------------------------------------------------------------------
(* Values *)

NoRecord == [live |-> FALSE, level |-> 0, code |-> 0, text |-> <<>>, info |-> <<>>]

errorMessage(level, code, text, info) ==
    [live |-> TRUE, level |-> level, code |-> code, text |-> text, info |-> info]

Desc(level, code, text, info) ==
    [Level |-> level, Code |-> code, Text |-> text, Info |-> info]

ZeroDesc == Desc(0, 0, <<>>, <<>>)

\* An argument of New: its dynamic type, whether a pointer is nil, the string
\* or the Desc it holds, and whether Desc.Info is the caller's shared slice.
NewArg(type, isNil, str, desc, alias) ==
    [type |-> type, isNil |-> isNil, str |-> str, desc |-> desc, alias |-> alias]

NoArg == NewArg("nil", FALSE, <<>>, ZeroDesc, FALSE)

-----------------------------------------------------------------------------
(* runtime.Stack: a header line, then complete lines, then possibly the    *)
(* start of a line cut off by the end of the buffer.                       *)

LineChar == <<"1", "2", "3", "4", "5", "6", "7", "8", "9", "a", "b", "c">>

RECURSIVE TraceLines(_)
TraceLines(n) ==
    IF n = 0 THEN <<>> ELSE TraceLines(n - 1) \o <<LineChar[n], NL>>

Trace(n, cut) ==
    <<"g", NL>> \o TraceLines(n) \o (IF cut THEN <<"~">> ELSE <<>>)

-----------------------------------------------------------------------------
(* addInfo: the scan of the captured buffer and the splice *)

\* The loop over the buffer's bytes; returns <<p1, p2>> (p2 = 0: not found).
RECURSIVE Scan(_, _, _, _, _)
Scan(buffer, j, l, p1, calldepth) ==
    IF j > Len(buffer) THEN <<p1, 0>>
    ELSE IF buffer[j] = NL
         THEN IF l = 0 THEN Scan(buffer, j + 1, l + 1, j, calldepth)
              ELSE IF l = calldepth THEN <<p1, j>>
              ELSE Scan(buffer, j + 1, l + 1, p1, calldepth)
         ELSE Scan(buffer, j + 1, l, p1, calldepth)

\* The mutant of StackEntry: the skip depth is not doubled.
StackEntryNotDoubled(buffer, calldepth) ==
    LET p == Scan(buffer, 1, 0, 0, calldepth)
    IN  IF p[2] > 0
        THEN SubSeq(buffer, 1, p[1]) \o SubSeq(buffer, p[2] + 1, Len(buffer))
        ELSE buffer

\* The entry stored in place of "debug.stack".
StackEntry(buffer, calldepth) ==
    LET p == Scan(buffer, 1, 0, 0, calldepth * 2)
    IN  IF p[2] > 0
        THEN SubSeq(buffer, 1, p[1]) \o SubSeq(buffer, p[2] + 1, Len(buffer))
        ELSE buffer

HasSentinel(s) == \E i \in 1..Len(s) : s[i] = DEBUG_STACK

\* The index at which the range loop finds "debug.stack" and breaks (0: none).
FirstSentinel(s) ==
    IF HasSentinel(s)
    THEN CHOOSE i \in 1..Len(s) :
            /\ s[i] = DEBUG_STACK
            /\ \A k \in 1..(i - 1) : s[k] # DEBUG_STACK
    ELSE 0

\* The slice s after the loop: s[i] is overwritten in place.
Overwritten(s, calldepth, buffer) ==
    LET i == FirstSentinel(s)
    IN  IF i = 0 THEN s ELSE [s EXCEPT ![i] = StackEntry(buffer, calldepth)]

\* addInfo; self: s is the record's own info slice (em.Info()...), so the
\* write to s[i] is a write to em.info[i]. Returns the record and the slice.
addInfo(e, calldepth, s, self, buffer) ==
    LET s2 == Overwritten(s, calldepth, buffer)
        base == IF self THEN s2 ELSE e.info
    IN  [em |-> [e EXCEPT !.info = base \o s2], s |-> s2]

-----------------------------------------------------------------------------
(* Setters, rendering, logging *)

\* The mutant of SetLevelOf: the range check is dropped.
SetLevelUnchecked(e, l) == [e EXCEPT !.level = l]

SetLevelOf(e, l) ==
    IF l >= minLevel /\ l <= maxLevel THEN [e EXCEPT !.level = l] ELSE e

SetCodeOf(e, c) == [e EXCEPT !.code = c]

SetTextOf(e, t) == [e EXCEPT !.text = t]

HexDigit == <<"0", "1", "2", "3", "4", "5", "6", "7", "8", "9",
              "a", "b", "c", "d", "e", "f">>

RECURSIVE HexDigits(_)
HexDigits(n) ==
    IF n < 16 THEN <<HexDigit[n + 1]>>
    ELSE HexDigits(n \div 16) \o <<HexDigit[(n % 16) + 1]>>

RECURSIVE ZeroPad(_, _)
ZeroPad(ds, prec) ==
    IF Len(ds) < prec THEN ZeroPad(<<"0">> \o ds, prec) ELSE ds

\* The mutant of Sprintf04x: the verb is %x, without width and zero flag.
SprintfX(c) ==
    IF c < 0 THEN <<"-">> \o HexDigits(-c) ELSE HexDigits(c)

\* fmt's %04x: width 4, zero-padded; the sign of a negative takes one column.
Sprintf04x(c) ==
    IF c < 0 THEN <<"-">> \o ZeroPad(HexDigits(-c), 3)
    ELSE ZeroPad(HexDigits(c), 4)

Error(e) ==
    IF e.code # 0 THEN e.text \o CodePrefix \o Sprintf04x(e.code) \o CodeSuffix
    ELSE e.text

\* The mutant of LogMethod: PANIC is logged through Print.
LogMethodNoPanic(level) ==
    IF level = FATAL THEN "Fatal" ELSE "Print"

\* The Logger method Log calls for a level.
LogMethod(level) ==
    IF level = FATAL THEN "Fatal"
    ELSE IF level = PANIC THEN "Panic"
    ELSE "Print"

-----------------------------------------------------------------------------
(* New *)

newFromE(desc, buffer) ==
    LET r == addInfo(errorMessage(ERROR, desc.Code, desc.Text, <<>>),
                     3, desc.Info, FALSE, buffer)
    IN  [em |-> SetLevelOf(r.em, desc.Level), s |-> r.s]

\* The mutant of UnsupportedDesc: no stack trace is asked for.
UnsupportedDescNoStack(type) ==
    Desc(0, ERR_NEW_ARG, UnsupportedPrefix \o TypeName(type), <<TypeName(type)>>)

\* The Desc New builds for an input of unsupported type.
UnsupportedDesc(type) ==
    Desc(0, ERR_NEW_ARG, UnsupportedPrefix \o TypeName(type),
         <<TypeName(type), DEBUG_STACK>>)

\* New: [panic, em, s], s being the Info slice after the call.
NewResult(arg, buffer) ==
    IF arg.type = "string"
    THEN [panic |-> FALSE, em |-> errorMessage(ERROR, 0, arg.str, <<>>), s |-> <<>>]
    ELSE IF arg.type = "*string"
    THEN IF arg.isNil
         THEN [panic |-> TRUE, em |-> NoRecord, s |-> <<>>]
         ELSE [panic |-> FALSE, em |-> errorMessage(ERROR, 0, arg.str, <<>>),
               s |-> <<>>]
    ELSE IF arg.type = "Desc"
    THEN LET r == newFromE(arg.desc, buffer)
         IN  [panic |-> FALSE, em |-> r.em, s |-> r.s]
    ELSE IF arg.type = "*Desc"
    THEN IF arg.isNil
         THEN [panic |-> TRUE, em |-> NoRecord, s |-> <<>>]
         ELSE LET r == newFromE(arg.desc, buffer)
              IN  [panic |-> FALSE, em |-> r.em, s |-> r.s]
    ELSE LET r == newFromE(UnsupportedDesc(arg.type), buffer)
         IN  [panic |-> FALSE, em |-> r.em, s |-> r.s]

\* The info list New hands to addInfo (empty when addInfo is not reached).
NewInfoArg(arg) ==
    IF arg.type \in {"Desc", "*Desc"} THEN (IF arg.isNil THEN <<>> ELSE arg.desc.Info)
    ELSE IF arg.type \in {"string", "*string"} THEN <<>>
    ELSE UnsupportedDesc(arg.type).Info

-----------------------------------------------------------------------------
(* The calls *)

Call(op, arg, n, str, src, trace) ==
    [op |-> op, arg |-> arg, n |-> n, str |-> str, src |-> src, trace |-> trace]

\* The state before the first call; the caller's slice holds what it was given.
InitOver(u) ==
    /\ em = NoRecord
    /\ shared \in u.sharedInit
    /\ sink = <<>>
    /\ panicked = FALSE
    /\ last = Call("none", NoArg, 0, <<>>, "none", <<>>)

DoNew(arg, buffer) ==
    /\ ~panicked
    /\ LET r == NewResult(arg, buffer)
       IN  /\ panicked' = r.panic
           /\ em' = IF r.panic THEN em ELSE r.em
           /\ shared' = IF arg.alias /\ ~r.panic THEN r.s ELSE shared
    /\ last' = Call("New", arg, 0, NewInfoArg(arg), "none", buffer)
    /\ UNCHANGED sink

DoSetLevel(l) ==
    /\ ~panicked /\ em.live
    /\ em' = SetLevelOf(em, l)
    /\ last' = Call("SetLevel", NoArg, l, <<>>, "none", <<>>)
    /\ UNCHANGED <<shared, sink, panicked>>

DoSetCode(c) ==
    /\ ~panicked /\ em.live
    /\ em' = SetCodeOf(em, c)
    /\ last' = Call("SetCode", NoArg, c, <<>>, "none", <<>>)
    /\ UNCHANGED <<shared, sink, panicked>>

DoSetText(t) ==
    /\ ~panicked /\ em.live
    /\ em' = SetTextOf(em, t)
    /\ last' = Call("SetText", NoArg, 0, t, "none", <<>>)
    /\ UNCHANGED <<shared, sink, panicked>>

\* AddInfo(s...); src: "fresh" (arguments written out at the call),
\* "shared" (the caller's slice) or "self" (the record's own Info()).
DoAddInfo(s, src, buffer, maxInfo) ==
    /\ ~panicked /\ em.live
    /\ src = "shared" => s = shared
    /\ src = "self" => s = em.info
    /\ Len(em.info) + Len(s) <= maxInfo
    /\ LET r == addInfo(em, 2, s, src = "self", buffer)
       IN  /\ em' = r.em
           /\ shared' = IF src = "shared" THEN r.s ELSE shared
    /\ last' = Call("AddInfo", NoArg, 0, s, src, buffer)
    /\ UNCHANGED <<sink, panicked>>

\* Log(log); recording: the Logger keeps what it is handed (the tests'
\* mockLogger), otherwise it discards it. last.str is the method called.
DoLog(recording, maxLog) ==
    /\ ~panicked /\ em.live
    /\ recording => Len(sink) < maxLog
    /\ sink' = IF recording
               THEN Append(sink, [method |-> LogMethod(em.level), arg |-> em])
               ELSE sink
    /\ last' = Call("Log", NoArg, 0, <<LogMethod(em.level)>>, "none", <<>>)
    /\ UNCHANGED <<em, shared, panicked>>

\* The accessor Error(): its result is kept in last.str.
DoError ==
    /\ ~panicked /\ em.live
    /\ last' = Call("Error", NoArg, 0, Error(em), "none", <<>>)
    /\ UNCHANGED <<em, shared, sink, panicked>>

-----------------------------------------------------------------------------
(* Inputs *)

Abc == <<"a", "b", "c">>
Xyz == <<"x", "y", "z">>
Line1 == <<"l", "1">>

RECURSIVE SeqsUpTo(_, _)
SeqsUpTo(S, n) ==
    IF n = 0 THEN {<<>>}
    ELSE LET T == SeqsUpTo(S, n - 1)
         IN  T \cup {Append(t, x) : t \in {u \in T : Len(u) = n - 1}, x \in S}

\* The arguments New is called with, over a universe u of inputs.
NewArgs(u) ==
    {NewArg("string", FALSE, t, ZeroDesc, FALSE) : t \in u.texts}
    \cup {NewArg("*string", FALSE, t, ZeroDesc, FALSE) : t \in u.texts}
    \cup {NewArg(ty, TRUE, <<>>, ZeroDesc, FALSE) : ty \in u.nilTypes}
    \cup {NewArg(ty, FALSE, <<>>, Desc(l, c, t, i), FALSE) :
            ty \in {"Desc", "*Desc"}, l \in u.descLevels, c \in u.codes,
            t \in u.texts, i \in u.lists}
    \cup {NewArg(ty, FALSE, <<>>, Desc(l, c, t, shared), TRUE) :
            ty \in u.aliasTypes, l \in u.descLevels, c \in u.codes,
            t \in u.texts}
    \cup {NewArg(ty, FALSE, <<>>, ZeroDesc, FALSE) : ty \in u.otherTypes}

\* runtime.Stack is called only when the loop finds the sentinel: the
\* buffers a call may capture (the empty one when it captures nothing).
Buffers(s, u) == IF HasSentinel(s) THEN u.traces ELSE {<<>>}

Step(u) ==
    \/ \E arg \in NewArgs(u) : \E b \in Buffers(NewInfoArg(arg), u) : DoNew(arg, b)
    \/ \E l \in u.levels : DoSetLevel(l)
    \/ \E c \in u.codes : DoSetCode(c)
    \/ \E t \in u.texts : DoSetText(t)
    \/ \E s \in u.lists : \E b \in Buffers(s, u) :
          DoAddInfo(s, "fresh", b, u.maxInfo)
    \/ \E src \in u.aliases :
          LET s == IF src = "self" THEN em.info ELSE shared
          IN  \E b \in Buffers(s, u) : DoAddInfo(s, src, b, u.maxInfo)
    \/ DoLog(u.recording, u.maxLog)
    \/ DoError

Int8Samples == {-128, -1, 0, 1, 2, 3, 4, 5, 6, 127}

\* Codes around the widths of the rendering: 0, 16^k - 1, 16^k and negatives.
RECURSIVE Pow16(_)
Pow16(k) == IF k = 0 THEN 1 ELSE 16 * Pow16(k - 1)

CodeSamples ==
    {0, 17} \cup {Pow16(k) : k \in 0..MaxCodeExp}
            \cup {Pow16(k) - 1 : k \in 1..MaxCodeExp}
            \cup {-Pow16(k) : k \in 0..MaxCodeExp}
            \cup {1 - Pow16(k) : k \in 1..MaxCodeExp}

AllTraces == {Trace(n, cut) : n \in 0..MaxLines, cut \in BOOLEAN}

\* The API specification: every way of calling New and every level.
ApiInputs ==
    [texts |-> {Abc}, codes |-> {0, 1}, levels |-> Int8Samples,
     descLevels |-> {-1, 0, WARNING, FATAL, 6},
     lists |-> {<<>>, <<Line1>>},
     traces |-> {Trace(MaxLines, FALSE)},
     nilTypes |-> {"*string", "*Desc"}, aliasTypes |-> {"Desc"},
     otherTypes |-> OtherTypes, aliases |-> {"shared"},
     sharedInit |-> {<<Line1>>},
     maxInfo |-> MaxInfo, recording |-> FALSE, maxLog |-> 0]

\* The info specification: lists with sentinels, passed fresh, through the
\* caller's slice and through the record's own Info().
InfoInputs ==
    [texts |-> {Abc}, codes |-> {0}, levels |-> {FATAL},
     descLevels |-> {0},
     lists |-> SeqsUpTo({Line1, DEBUG_STACK}, MaxArgs),
     traces |-> {Trace(MaxLines, FALSE)},
     nilTypes |-> {"*Desc"}, aliasTypes |-> {"Desc", "*Desc"},
     otherTypes |-> {"int"}, aliases |-> {"shared", "self"},
     sharedInit |-> {<<DEBUG_STACK>>, <<Line1, DEBUG_STACK>>},
     maxInfo |-> MaxInfoAlias, recording |-> FALSE, maxLog |-> 0]

\* The logging specification: a recording Logger, every level.
LogInputs ==
    [texts |-> {Abc}, codes |-> {0}, levels |-> Int8Samples,
     descLevels |-> {0, PANIC},
     lists |-> {<<>>},
     traces |-> {Trace(MaxLines, FALSE)},
     nilTypes |-> {"*string"}, aliasTypes |-> {"Desc"},
     otherTypes |-> {}, aliases |-> {"shared"},
     sharedInit |-> {<<>>},
     maxInfo |-> MaxInfo, recording |-> TRUE, maxLog |-> MaxLog]

\* The rendering specification: codes of every width and sign.
ErrorInputs ==
    [texts |-> {<<>>, Abc}, codes |-> CodeSamples, levels |-> {ERROR},
     descLevels |-> {0},
     lists |-> {<<Line1>>},
     traces |-> {Trace(MaxLines, FALSE)},
     nilTypes |-> {"*string"}, aliasTypes |-> {"Desc"},
     otherTypes |-> {"int"}, aliases |-> {"shared"},
     sharedInit |-> {<<Line1>>},
     maxInfo |-> MaxInfo, recording |-> FALSE, maxLog |-> 0]

\* The stack specification: traces of every length, whole or cut off.
StackInputs ==
    [texts |-> {Abc}, codes |-> {0}, levels |-> {ERROR},
     descLevels |-> {0},
     lists |-> {<<DEBUG_STACK>>, <<Line1, DEBUG_STACK>>},
     traces |-> AllTraces,
     nilTypes |-> {"*string"}, aliasTypes |-> {"Desc"},
     otherTypes |-> {"int"}, aliases |-> {"shared"},
     sharedInit |-> {<<Line1>>},
     maxInfo |-> MaxStackInfo, recording |-> FALSE, maxLog |-> 0]

Init == InitOver(ApiInputs)
Next == Step(ApiInputs)
Spec == Init /\ [][Next]_vars

InfoInit == InitOver(InfoInputs)
InfoNext == Step(InfoInputs)
SpecInfo == InfoInit /\ [][InfoNext]_vars

LogInit == InitOver(LogInputs)
LogNext == Step(LogInputs)
SpecLog == LogInit /\ [][LogNext]_vars

ErrorInit == InitOver(ErrorInputs)
ErrorNext == Step(ErrorInputs)
SpecError == ErrorInit /\ [][ErrorNext]_vars

StackInit == InitOver(StackInputs)
StackNext == Step(StackInputs)
SpecStack == StackInit /\ [][StackNext]_vars

-----------------------------------------------------------------------------
(* Vocabulary of the properties *)

ValidLevels == {WARNING, ERROR, PANIC, FATAL}

IsPrefix(a, b) == Len(a) <= Len(b) /\ SubSeq(b, 1, Len(a)) = a

\* The positions of the newlines of a trace, and the k-th of them.
Newlines(t) == {j \in 1..Len(t) : t[j] = NL}

NthNewline(t, k) ==
    CHOOSE j \in Newlines(t) : Cardinality({i \in Newlines(t) : i <= j}) = k

\* A trace with its lines 2 .. 2d+1 removed (it has at least 2d+1 newlines).
WithoutFrames(t, d) ==
    SubSeq(t, 1, NthNewline(t, 1)) \o SubSeq(t, NthNewline(t, 2 * d + 1) + 1, Len(t))

\* Reading hexadecimal digits back.
IsHex(h) == \A i \in 1..Len(h) : \E k \in 1..16 : HexDigit[k] = h[i]

DigitValue(ch) == (CHOOSE k \in 1..16 : HexDigit[k] = ch) - 1

RECURSIVE HexValue(_)
HexValue(h) ==
    IF Len(h) = 0 THEN 0
    ELSE 16 * HexValue(SubSeq(h, 1, Len(h) - 1)) + DigitValue(h[Len(h)])

\* What a rendering r shows between " (code: 0x" and ")" after the text
\* (the empty sequence when r has not that shape).
ShownCode(r, text) ==
    LET n == Len(text) + Len(CodePrefix)
    IN  IF /\ Len(r) > n + 1
           /\ SubSeq(r, 1, n) = text \o CodePrefix
           /\ r[Len(r)] = ")"
        THEN SubSeq(r, n + 1, Len(r) - 1)
        ELSE <<>>

\* The skip depth of the call path, and where the call's entries start.
DepthOf(op) == IF op = "New" THEN 3 ELSE 2

-----------------------------------------------------------------------------
(* The claims *)

\* C1: New never raises a failure (panic) to its caller, whatever its
\* argument: a string, a Desc, a pointer to either (nil included), nil, or a
\* value of another type.
C1_NewNeverPanics == ~panicked

\* C2: after New or AddInfo no element of Info() is the literal
\* "debug.stack", for any number and positions of sentinels in the call.
C2_NoSentinelPersists ==
    em.live => \A i \in 1..Len(em.info) : em.info[i] # DEBUG_STACK

\* C3: the level of a record is always WARNING, ERROR, PANIC or FATAL; New
\* yields ERROR for a string and for a descriptor whose level is unset or out
\* of range, and the descriptor's level otherwise; SetLevel(l) sets an l in
\* range and leaves the level as it was for an l out of range.
C3_LevelStaysValid ==
    [][/\ em'.live => em'.level \in ValidLevels
       /\ (last'.op = "New" /\ ~panicked') =>
             em'.level = IF /\ last'.arg.type \in {"Desc", "*Desc"}
                            /\ last'.arg.desc.Level \in ValidLevels
                         THEN last'.arg.desc.Level
                         ELSE ERROR
       /\ (last'.op = "SetLevel" /\ last'.n \in ValidLevels) =>
             em'.level = last'.n
       /\ (last'.op = "SetLevel" /\ last'.n \notin ValidLevels) =>
             em'.level = em.level]_vars

\* C3 witness: an out-of-range SetLevel on a record whose level had been
\* raised to FATAL.
C3_Witness ==
    /\ last.op = "SetLevel" /\ last.n \notin ValidLevels
    /\ em.live /\ em.level = FATAL

\* C4: each Log call hands the sink exactly one call, of the method the
\* record's level at that moment selects (FATAL: Fatal, PANIC: Panic,
\* WARNING or ERROR: Print), with the record as its argument, after the
\* calls already received; no other operation reaches the sink, and Log
\* leaves the record's fields unchanged.
C4_LogDispatch ==
    [][/\ last'.op = "Log" =>
             /\ Len(sink') = Len(sink) + 1
             /\ SubSeq(sink', 1, Len(sink)) = sink
             /\ sink'[Len(sink')].method =
                   CASE em.level = FATAL -> "Fatal"
                     [] em.level = PANIC -> "Panic"
                     [] em.level \in {WARNING, ERROR} -> "Print"
             /\ sink'[Len(sink')].arg = em
             /\ em' = em
       /\ last'.op # "Log" => sink' = sink]_vars

\* C4 witness: Log, SetLevel(PANIC), Log, SetLevel(FATAL), Log.
C4_Witness ==
    /\ last.op = "Log" /\ Len(sink) = 3
    /\ sink[1].method = "Print" /\ sink[2].method = "Panic"
    /\ sink[3].method = "Fatal"

C6_InfoAppendOnly ==
    [][(em.live /\ last'.op # "New") =>
          /\ IsPrefix(em.info, em'.info)
          /\ last'.op = "AddInfo" =>
                /\ Len(em'.info) = Len(em.info) + Len(last'.str)
                /\ \A i \in 1..Len(last'.str) :
                      last'.str[i] # DEBUG_STACK =>
                          em'.info[Len(em.info) + i] = last'.str[i]
                /\ em' = [em EXCEPT !.info = em'.info]]_vars

\* C7 as stated: Error() is the text alone for code 0, and otherwise the text
\* followed by " (code: 0x", the code as exactly four lowercase hexadecimal
\* digits, and ")".
C7_FourHexDigits ==
    last.op = "Error" =>
        IF em.code = 0 THEN last.str = em.text
        ELSE LET h == ShownCode(last.str, em.text)
             IN  Len(h) = 4 /\ IsHex(h) /\ HexValue(h) = em.code

\* C7 as amended: Error() is the text alone for code 0; otherwise the text
\* followed by " (code: 0x", the code in lowercase hexadecimal zero-padded to
\* a width of at least 4 (a "-" sign first, and counted in the width, for a
\* negative code; every digit of a code above 0xffff) and ")". Info entries
\* are not rendered and Error() changes no field.
C7_ErrorRendering ==
    [][last'.op = "Error" =>
          /\ em' = em
          /\ IF em.code = 0 THEN last'.str = em.text
             ELSE LET h == ShownCode(last'.str, em.text)
                      neg == em.code < 0
                      ds == IF neg THEN SubSeq(h, 2, Len(h)) ELSE h
                  IN  /\ Len(h) >= 4
                      /\ neg => h[1] = "-"
                      /\ Len(ds) >= 1 /\ IsHex(ds)
                      /\ HexValue(ds) = IF neg THEN -em.code ELSE em.code
                      /\ Len(h) > 4 => ds[1] # "0"]_vars

\* C7 witness: the rendering of a negative code of a record that has info.
C7_Witness ==
    /\ last.op = "Error" /\ em.code = -1 /\ Len(em.info) > 0
    /\ Len(last.str) > Len(em.text)

\* C8: the entry stored for the sentinel, with skip depth d (3 through New,
\* 2 through AddInfo): when the captured trace has at least 2d+1 newlines,
\* its first line followed by the trace without its next 2d lines; when it
\* has fewer, the whole trace, never an empty or a truncated one.
C8_StackSplice ==
    (last.op \in {"New", "AddInfo"} /\ ~panicked /\ HasSentinel(last.str)) =>
        LET d == DepthOf(last.op)
            t == last.trace
            at == Len(em.info) - Len(last.str) + FirstSentinel(last.str)
        IN  /\ Len(t) > 0
            /\ em.info[at] =
                  IF Cardinality(Newlines(t)) >= 2 * d + 1
                  THEN WithoutFrames(t, d)
                  ELSE t

\* C8 witness: AddInfo("debug.stack") with a trace long enough: the entry
\* is the header followed by the trace from its fifth line on, the caller's
\* frame, 2 frames (4 lines of 2 bytes) shorter than the trace.
C8_Witness ==
    /\ last.op = "AddInfo" /\ HasSentinel(last.str)
    /\ Cardinality(Newlines(last.trace)) > 5
    /\ Len(em.info) = 1
    /\ Len(em.info[1]) = Len(last.trace) - 8
    /\ em.info[1][3] = LineChar[5]

\* C9: New and AddInfo leave their inputs unchanged: the caller's list of
\* info entries holds after the call what it held before it.
C9_InputsUnchanged ==
    [][last'.op \in {"New", "AddInfo"} => shared' = shared]_vars

\* C10: ERR_NEW_ARG identifies the records of an invalid call of New: a
\* record built from a string, or from a descriptor that sets no code, has
\* another code, and the rendering of a record built from an unsupported
\* input shows the reserved code.
C10_ReservedCodeIdentifies ==
    (last.op = "New" /\ ~panicked) =>
        /\ last.arg.type \in {"string", "*string"} => em.code # ERR_NEW_ARG
        /\ (last.arg.type \in {"Desc", "*Desc"} /\ last.arg.desc.Code = 0) =>
              em.code # ERR_NEW_ARG
        /\ last.arg.type \notin SupportedTypes =>
              ShownCode(Error(em), em.text) # <<>>

====
